---- MODULE Spec2Model ----
(***************************************************************************)
(* Model of main.py, the multi-stage annotation driver of dataspeech.       *)
(*                                                                         *)
(* The script is one straight-line driver: it builds the storage options,  *)
(* loads the corpus, maps the estimators over it stage by stage, merges    *)
(* the per-stage columns by position and exports the result.  Every        *)
(* statement that calls into the `datasets` library is one action here;    *)
(* a `map` call is split into its entry (argument check), its batches and  *)
(* its return, because the estimators can raise on any batch.               *)
(*                                                                         *)
(* Library behaviour the driver relies on, modelled as the library          *)
(* documents it:                                                            *)
(*   - Dataset.map(num_proc=n) raises ValueError when n <= 0;               *)
(*   - map(remove_columns=C) yields the input columns minus C, updated      *)
(*     with the columns the transform adds, in the input's row order;       *)
(*   - Dataset.add_column(name, ..) raises ValueError when the dataset      *)
(*     already has a column of that name;                                   *)
(*   - Dataset has no __contains__, so `x in dataset` iterates its rows.    *)
(* The columns each estimator adds are those the driver reads back in the   *)
(* merge loop (snr, c50, speech_duration, speaking_rate, phonemes, stoi,    *)
(* sdr, pesq) plus the two pitch statistics.  Column names are the          *)
(* argparse defaults "audio" and "text" (no --rename_column).               *)
(***************************************************************************)
EXTENDS Integers, Sequences, FiniteSets, TLC

\* ---- bounds of the model ------------------------------------------------
MaxAccel   == 2      \* torch.cuda.device_count() ranges over 0..MaxAccel
MaxCpu     == 2      \* --cpu_num_workers ranges over 0..MaxCpu
MaxDensity == 2      \* every --num_workers_per_gpu_for_* ranges over 0..MaxDensity
MaxRows    == 3      \* the corpus has 1..MaxRows rows

\* ---- program constants (argparse defaults) --------------------------------
batch_size == 2
DefaultCpuNumWorkers == 1
DefaultWorkersPerGpu == 1

None == "<None>"                      \* Python's None for an optional string
audio_column_name == "audio"
text_column_name  == "text"

Splits == {"train"}                   \* DatasetDict({"train": dataset})
Stages == {"squim", "pitch", "snr", "rate"}
StageOrder == <<"squim", "pitch", "snr", "rate">>

\* Truthiness of an optional string argument: None and "" are both falsy.
Truthy(s) == s # None /\ s # ""

VARIABLES
    args,             \* the parsed command line
    device_count,     \* torch.cuda.device_count()
    base,             \* the corpus as the store holds it
    snr_emits_duration, \* whether snr_apply adds speech_duration
    pc,               \* the driver's position
    failure,          \* "none" or the kind of exception that ended the run
    storage_options,  \* NoOptions (None) or the credentials dict
    warned,           \* the partial-credentials warning was printed
    calls,            \* load/save/push calls made, with the storage_options passed
    dataset,          \* DatasetDict: split -> Dataset
    squim_dataset, pitch_dataset, snr_dataset, rate_dataset,
    job,              \* the map call in progress
    in_progress,      \* stages whose map call has been entered and not left
    started,          \* stages in the order their map call was entered
    finished,         \* stages whose map call returned
    plan,             \* stage -> [num_proc, with_rank] handed to map
    rate_input        \* which corpus the rate stage was given

vars == <<args, device_count, base, snr_emits_duration, pc, failure,
          storage_options, warned, calls, dataset, squim_dataset,
          pitch_dataset, snr_dataset, rate_dataset, job, in_progress,
          started, finished, plan, rate_input>>

env == <<args, device_count, base, snr_emits_duration>>

\* ---- datasets -----------------------------------------------------------
\* A Dataset is [num_rows, column], column a function from column name to
\* the sequence of its cells.  A cell records which pass produced it, under
\* which name, for which row of the corpus.
Cell(origin, name, i) == <<origin, name, i>>

Features(ds) == DOMAIN ds.column

NoDataset == [num_rows |-> 0, column |-> [c \in {} |-> <<>>]]
NoDatasetDict == [s \in Splits |-> NoDataset]

BaseDataset(n, extra) ==
    [num_rows |-> n,
     column   |-> [c \in {audio_column_name, text_column_name} \cup extra |->
                      [i \in 1..n |-> Cell("base", c, i)]]]

\* Columns a base corpus may already carry (a corpus annotated before).
ExtraColumns == {"snr", "speech_duration", "phonemes", "si-sdr"}
BaseExtras == {{}} \cup {{c} : c \in ExtraColumns}

\* ---- storage options (lines 50-65) -----------------------------------------
NoOptions == [key |-> None, secret |-> None, endpoint_url |-> None]

\* A slip that accepts either credential alone.
StorageOptionsEither(key, secret, endpoint) ==
    IF Truthy(key) \/ Truthy(secret)
    THEN [key |-> key, secret |-> secret,
          endpoint_url |-> IF Truthy(endpoint) THEN endpoint ELSE None]
    ELSE NoOptions

StorageOptionsOf(key, secret, endpoint) ==
    IF Truthy(key) /\ Truthy(secret)
    THEN [key |-> key, secret |-> secret,
          endpoint_url |-> IF Truthy(endpoint) THEN endpoint ELSE None]
    ELSE NoOptions

PartialWarning(key, secret, endpoint) ==
    /\ ~(Truthy(key) /\ Truthy(secret))
    /\ (Truthy(key) \/ Truthy(secret) \/ Truthy(endpoint))

SetupStorage ==
    /\ pc = "setup"
    /\ storage_options' = StorageOptionsOf(args.aws_access_key_id,
                                           args.aws_secret_access_key,
                                           args.aws_endpoint_url)
    /\ warned' = PartialWarning(args.aws_access_key_id,
                                args.aws_secret_access_key,
                                args.aws_endpoint_url)
    /\ pc' = "load"
    /\ UNCHANGED <<env, failure, calls, dataset, squim_dataset, pitch_dataset,
                   snr_dataset, rate_dataset, job, in_progress, started,
                   finished, plan, rate_input>>

\* `if storage_options:` -- None is falsy, the dict built above is not.
HasOptions(o) == o # NoOptions

\* A driver that records the exception and carries on.
FailAndContinue(kind) == /\ failure' = kind
                         /\ pc' = pc

\* An exception nobody catches: the driver stops where it is.
Fail(kind) == /\ failure' = kind
              /\ pc' = "failed"

\* ---- load (lines 67-85) --------------------------------------------------
\* load_from_disk receives storage_options when they are set; load_dataset is
\* never given them.  load_dataset is handed num_proc = cpu_num_workers: with
\* a cached corpus the value is not used, with a fresh one a pool of that
\* size is created, which raises when it is not positive.
LoadCall ==
    IF args.from_disk
    THEN [fn |-> "load_from_disk",
          storage_options |-> IF HasOptions(storage_options)
                              THEN storage_options ELSE NoOptions]
    ELSE [fn |-> "load_dataset", storage_options |-> NoOptions]

LoadDataset ==
    /\ pc = "load"
    /\ calls' = Append(calls, LoadCall)
    /\ \/ /\ dataset' = [s \in Splits |-> base]
          /\ pc' = "squim"
          /\ UNCHANGED failure
       \/ /\ ~args.from_disk
          /\ args.cpu_num_workers <= 0
          /\ Fail("config")
          /\ UNCHANGED dataset
    /\ UNCHANGED <<env, storage_options, warned, squim_dataset, pitch_dataset,
                   snr_dataset, rate_dataset, job, in_progress, started,
                   finished, plan, rate_input>>

\* ---- worker allocation (num_proc / with_rank arguments) ------------------
\* A slip that drops the CPU fallback.
NumProcNoFallback(workers_per_gpu) == device_count * workers_per_gpu

NumProc(workers_per_gpu) ==
    IF device_count > 0 THEN device_count * workers_per_gpu
                        ELSE args.cpu_num_workers

WithRank == device_count > 0

AcceleratorPlan(workers_per_gpu) ==
    [num_proc |-> NumProc(workers_per_gpu), with_rank |-> WithRank]

CpuPlan == [num_proc |-> args.cpu_num_workers, with_rank |-> FALSE]

NoPlan == [num_proc |-> -1, with_rank |-> FALSE]

\* ---- the map call --------------------------------------------------------
NoJob == [stage |-> "none", source |-> "none", remove |-> {}, step |-> 0,
          done |-> 0]

\* Columns each estimator adds to the batch it is given.
Emitted(stage) ==
    CASE stage = "squim" -> {"sdr", "stoi", "pesq"}
      [] stage = "pitch" -> {"utterance_pitch_mean", "utterance_pitch_std"}
      [] stage = "snr"   -> {"snr", "c50"} \cup
                            (IF snr_emits_duration THEN {"speech_duration"}
                                                   ELSE {})
      [] stage = "rate"  -> {"speaking_rate", "phonemes"}

\* Result of input.map(fn, remove_columns=remove): row order is kept.
MapOutput(input, stage, remove) ==
    LET kept == Features(input) \ remove
        new  == Emitted(stage)
    IN [num_rows |-> input.num_rows,
        column   |-> [c \in kept \cup new |->
                        IF c \in new
                        THEN [i \in 1..input.num_rows |-> Cell(stage, c, i)]
                        ELSE input.column[c]]]

MapOutputDict(input, stage, remove) ==
    [s \in Splits |-> MapOutput(input[s], stage, remove)]

SourceCorpus(name) == IF name = "snr_dataset" THEN snr_dataset ELSE dataset

\* Entering DatasetDict.map: the argument check, then the pass begins.
EnterMap(stage, p, source, remove, step) ==
    /\ plan' = [plan EXCEPT ![stage] = p]
    /\ IF p.num_proc <= 0
       THEN /\ Fail("config")
            /\ UNCHANGED <<job, in_progress, started>>
       ELSE /\ job' = [stage |-> stage, source |-> source, remove |-> remove,
                       step |-> step, done |-> 0]
            /\ in_progress' = in_progress \cup {stage}
            /\ started' = Append(started, stage)
            /\ UNCHANGED <<pc, failure>>

\* The SNR pass written before the pitch pass.
StageAfterSwapped(stage) ==
    CASE stage = "squim" -> "snr"
      [] stage = "snr"   -> "pitch"
      [] stage = "pitch" -> "rate"
      [] stage = "rate"  -> "merge"

\* The driver's next statement after a stage's map call has returned.
StageAfter(stage) ==
    CASE stage = "squim" -> "pitch"
      [] stage = "pitch" -> "snr"
      [] stage = "snr"   -> "rate"
      [] stage = "rate"  -> "merge"

\* lines 87-97
SquimMap ==
    /\ pc = "squim"
    /\ job = NoJob
    /\ IF args.apply_squim_quality_estimation
       THEN EnterMap("squim",
                     AcceleratorPlan(args.num_workers_per_gpu_for_squim),
                     "dataset", {audio_column_name}, batch_size)
       ELSE /\ pc' = StageAfter("squim")
            /\ UNCHANGED <<failure, job, in_progress, started, plan>>
    /\ UNCHANGED <<env, storage_options, warned, calls, dataset, squim_dataset,
                   pitch_dataset, snr_dataset, rate_dataset, finished,
                   rate_input>>

\* lines 99-108
PitchMap ==
    /\ pc = "pitch"
    /\ job = NoJob
    /\ EnterMap("pitch", AcceleratorPlan(args.num_workers_per_gpu_for_pitch),
                "dataset", {audio_column_name}, batch_size)
    /\ UNCHANGED <<env, storage_options, warned, calls, dataset, squim_dataset,
                   pitch_dataset, snr_dataset, rate_dataset, finished,
                   rate_input>>

\* lines 110-119
SnrMap ==
    /\ pc = "snr"
    /\ job = NoJob
    /\ EnterMap("snr", AcceleratorPlan(args.num_workers_per_gpu_for_snr),
                "dataset", {audio_column_name}, batch_size)
    /\ UNCHANGED <<env, storage_options, warned, calls, dataset, squim_dataset,
                   pitch_dataset, snr_dataset, rate_dataset, finished,
                   rate_input>>

\* line 122: the schema of the first split of the SNR stage's output.
FirstSplit == CHOOSE s \in Splits : TRUE

\* A resolver that always takes the base corpus.
SelectInputBase == "dataset"

SelectInput ==
    IF "speech_duration" \in Features(snr_dataset[FirstSplit])
    THEN "snr_dataset" ELSE "dataset"

\* lines 121-138: rate_apply is mapped row by row (not batched).
RateMap ==
    /\ pc = "rate"
    /\ job = NoJob
    /\ rate_input' = SelectInput
    /\ EnterMap("rate", CpuPlan, SelectInput,
                IF SelectInput = "snr_dataset" THEN {}
                                               ELSE {audio_column_name},
                1)
    /\ UNCHANGED <<env, storage_options, warned, calls, dataset, squim_dataset,
                   pitch_dataset, snr_dataset, rate_dataset, finished>>

Min(a, b) == IF a < b THEN a ELSE b

JobRows == SourceCorpus(job.source)[FirstSplit].num_rows

\* One batch of the pass in progress: the transform returns, or it raises and
\* the exception leaves map and the driver.
MapBatch ==
    /\ pc \in Stages
    /\ job # NoJob
    /\ job.done < JobRows
    /\ \/ /\ job' = [job EXCEPT !.done = Min(job.done + job.step, JobRows)]
          /\ UNCHANGED <<pc, failure>>
       \/ /\ Fail("transform")
          /\ UNCHANGED job
    /\ UNCHANGED <<env, storage_options, warned, calls, dataset, squim_dataset,
                   pitch_dataset, snr_dataset, rate_dataset, in_progress,
                   started, finished, plan, rate_input>>

\* The pass is complete: map returns the derived corpus.
MapReturn ==
    /\ pc \in Stages
    /\ job # NoJob
    /\ job.done = JobRows
    /\ LET out == MapOutputDict(SourceCorpus(job.source), job.stage, job.remove)
       IN /\ squim_dataset' = IF job.stage = "squim" THEN out ELSE squim_dataset
          /\ pitch_dataset' = IF job.stage = "pitch" THEN out ELSE pitch_dataset
          /\ snr_dataset'   = IF job.stage = "snr"   THEN out ELSE snr_dataset
          /\ rate_dataset'  = IF job.stage = "rate"  THEN out ELSE rate_dataset
    /\ in_progress' = in_progress \ {job.stage}
    /\ finished' = finished \cup {job.stage}
    /\ pc' = StageAfter(job.stage)
    /\ job' = NoJob
    /\ UNCHANGED <<env, failure, storage_options, warned, calls, dataset,
                   started, plan, rate_input>>

\* ---- merge (lines 140-146) -----------------------------------------------
\* The value standing for "add_column raised": every later call of the chain
\* is then never made.
SchemaError == [num_rows |-> -1, column |-> [c \in {} |-> <<>>]]

\* An add_column that replaces a column of the same name.
AddColumnReplacing(ds, name, column) ==
    IF ds = SchemaError
    THEN SchemaError
    ELSE [ds EXCEPT !.column =
             [c \in Features(ds) \cup {name} |->
                 IF c = name THEN column ELSE ds.column[c]]]

\* Dataset.add_column(name, column): a duplicate column name raises.
AddColumn(ds, name, column) ==
    IF ds = SchemaError \/ name \in Features(ds)
    THEN SchemaError
    ELSE [ds EXCEPT !.column = (name :> column) @@ ds.column]

Row(ds, i) == [c \in Features(ds) |-> ds.column[c][i]]

\* Python's == between a row (a dict) and a column name (a str).
RowEqualsName(row, name) == FALSE

\* `name in ds` for a Dataset: no __contains__, so the rows are iterated and
\* each is compared with the name.
DatasetContains(ds, name) ==
    \E i \in 1..ds.num_rows : RowEqualsName(Row(ds, i), name)

\* line 141
MergeSnr(split) ==
    AddColumn(AddColumn(pitch_dataset[split],
                        "snr", snr_dataset[split].column["snr"]),
              "c50", snr_dataset[split].column["c50"])

\* lines 142-143
MergeDuration(split, ds) ==
    IF ds # SchemaError /\ DatasetContains(snr_dataset[split], "speech_duration")
    THEN AddColumn(ds, "speech_duration",
                   snr_dataset[split].column["speech_duration"])
    ELSE ds

\* line 144
MergeRate(split, ds) ==
    AddColumn(AddColumn(ds, "speaking_rate",
                        rate_dataset[split].column["speaking_rate"]),
              "phonemes", rate_dataset[split].column["phonemes"])

\* lines 145-146
MergeSquim(split, ds) ==
    IF ds # SchemaError /\ args.apply_squim_quality_estimation
    THEN AddColumn(AddColumn(AddColumn(ds,
                       "stoi", squim_dataset[split].column["stoi"]),
                       "si-sdr", squim_dataset[split].column["sdr"]),
                       "pesq", squim_dataset[split].column["pesq"])
    ELSE ds

MergeSplit(split) ==
    MergeSquim(split, MergeRate(split, MergeDuration(split, MergeSnr(split))))

\* dataset[split] as the last assignment that completed left it.
LastAssigned(split) ==
    LET d1 == MergeSnr(split)
        d2 == MergeDuration(split, d1)
        d3 == MergeRate(split, d2)
    IN IF d1 = SchemaError THEN dataset[split]
       ELSE IF d2 = SchemaError THEN d1
       ELSE IF d3 = SchemaError THEN d2
       ELSE d3

Merge ==
    /\ pc = "merge"
    /\ IF \E s \in Splits : MergeSplit(s) = SchemaError
       THEN /\ dataset' = [s \in Splits |-> LastAssigned(s)]
            /\ Fail("schema")
       ELSE /\ dataset' = [s \in Splits |-> MergeSplit(s)]
            /\ pc' = "save"
            /\ UNCHANGED failure
    /\ UNCHANGED <<env, storage_options, warned, calls, squim_dataset,
                   pitch_dataset, snr_dataset, rate_dataset, job, in_progress,
                   started, finished, plan, rate_input>>

\* ---- export (lines 148-159) ----------------------------------------------
SaveCall ==
    [fn |-> "save_to_disk",
     storage_options |-> IF HasOptions(storage_options)
                         THEN storage_options ELSE NoOptions]

SaveToDisk ==
    /\ pc = "save"
    /\ calls' = IF Truthy(args.output_dir) THEN Append(calls, SaveCall)
                                           ELSE calls
    /\ pc' = "push"
    /\ UNCHANGED <<env, failure, storage_options, warned, dataset,
                   squim_dataset, pitch_dataset, snr_dataset, rate_dataset,
                   job, in_progress, started, finished, plan, rate_input>>

PushCall == [fn |-> "push_to_hub", storage_options |-> NoOptions]

PushToHub ==
    /\ pc = "push"
    /\ calls' = IF Truthy(args.repo_id) THEN Append(calls, PushCall)
                                        ELSE calls
    /\ pc' = "done"
    /\ UNCHANGED <<env, failure, storage_options, warned, dataset,
                   squim_dataset, pitch_dataset, snr_dataset, rate_dataset,
                   job, in_progress, started, finished, plan, rate_input>>

\* ---- specifications ------------------------------------------------------
ArgSet(cpus, densities, squims, keys, secrets, urls, disks, cfgs, outs, repos) ==
    [cpu_num_workers                : cpus,
     num_workers_per_gpu_for_squim  : densities,
     num_workers_per_gpu_for_pitch  : densities,
     num_workers_per_gpu_for_snr    : densities,
     apply_squim_quality_estimation : squims,
     aws_access_key_id              : keys,
     aws_secret_access_key          : secrets,
     aws_endpoint_url               : urls,
     from_disk                      : disks,
     configuration                  : cfgs,
     output_dir                     : outs,
     repo_id                        : repos]

Corpora(rows, extras) == {BaseDataset(n, x) : n \in rows, x \in extras}

InitWith(argset, devices, corpora) ==
    /\ args \in argset
    /\ device_count \in devices
    /\ base \in corpora
    /\ snr_emits_duration \in BOOLEAN
    /\ pc = "setup"
    /\ failure = "none"
    /\ storage_options = NoOptions
    /\ warned = FALSE
    /\ calls = <<>>
    /\ dataset = NoDatasetDict
    /\ squim_dataset = NoDatasetDict
    /\ pitch_dataset = NoDatasetDict
    /\ snr_dataset = NoDatasetDict
    /\ rate_dataset = NoDatasetDict
    /\ job = NoJob
    /\ in_progress = {}
    /\ started = <<>>
    /\ finished = {}
    /\ plan = [s \in Stages |-> NoPlan]
    /\ rate_input = "none"

\* The pipeline: every corpus shape, accelerator count and CPU worker count,
\* the density factors at their default, credentials absent or complete.
Init ==
    InitWith(ArgSet(0..MaxCpu, {DefaultWorkersPerGpu}, BOOLEAN,
                    {None, "AK"}, {None, "SK"}, {None},
                    BOOLEAN, {None}, {None, "out"}, {None, "repo"}),
             0..MaxAccel, Corpora(1..MaxRows, BaseExtras))

\* Worker allocation: every accelerator count, CPU worker count and density
\* factor of each stage, on a plain corpus, both exports requested.
InitAlloc ==
    InitWith(ArgSet(0..MaxCpu, 0..MaxDensity, BOOLEAN,
                    {None}, {None}, {None},
                    {FALSE}, {None}, {"out"}, {"repo"}),
             0..MaxAccel, Corpora({MaxRows}, {{}}))

\* Storage: every combination of key, secret and endpoint (absent, empty or
\* given) with every load and export path, workers at their defaults.
InitStorage ==
    InitWith(ArgSet({DefaultCpuNumWorkers}, {DefaultWorkersPerGpu}, BOOLEAN,
                    {None, "", "AK"}, {None, "", "SK"}, {None, "", "https://s3"},
                    BOOLEAN, {None, "cfg"}, {None, "out"}, {None, "repo"}),
             {0}, Corpora({MaxRows}, {{}}))

Next ==
    \/ SetupStorage
    \/ LoadDataset
    \/ SquimMap
    \/ PitchMap
    \/ SnrMap
    \/ RateMap
    \/ MapBatch
    \/ MapReturn
    \/ Merge
    \/ SaveToDisk
    \/ PushToHub

Spec == Init /\ [][Next]_vars
SpecAlloc == InitAlloc /\ [][Next]_vars
SpecStorage == InitStorage /\ [][Next]_vars

TypeOK ==
    /\ pc \in {"setup", "load", "squim", "pitch", "snr", "rate", "merge",
               "save", "push", "done", "failed"}
    /\ failure \in {"none", "config", "transform", "schema"}
    /\ in_progress \subseteq Stages
    /\ finished \subseteq Stages

\* ---- properties ----------------------------------------------------------
Range(seq) == {seq[i] : i \in DOMAIN seq}

Density(stage) ==
    CASE stage = "squim" -> args.num_workers_per_gpu_for_squim
      [] stage = "pitch" -> args.num_workers_per_gpu_for_pitch
      [] stage = "snr"   -> args.num_workers_per_gpu_for_snr

Merged == pc \in {"save", "push", "done"}

ExportCalls == {i \in DOMAIN calls : calls[i].fn \in {"save_to_disk", "push_to_hub"}}

\* C1: a quality, pitch or snr/reverb pass is handed the CPU worker count as
\* its process count when there is no accelerator, whatever its density
\* factor, and accelerators * density factor when there are accelerators; the
\* speaking-rate pass is always handed the CPU worker count and no rank.
WorkerAllocation ==
    /\ \A s \in {"squim", "pitch", "snr"} :
          plan[s] # NoPlan =>
             /\ device_count = 0 => plan[s].num_proc = args.cpu_num_workers
             /\ device_count > 0 => plan[s].num_proc = device_count * Density(s)
    /\ plan["rate"] # NoPlan =>
          /\ plan["rate"].num_proc = args.cpu_num_workers
          /\ ~plan["rate"].with_rank

WorkerAllocationWitness ==
    /\ device_count = 2
    /\ args.num_workers_per_gpu_for_snr = 2
    /\ args.num_workers_per_gpu_for_pitch = 1
    /\ args.cpu_num_workers = 1
    /\ plan["pitch"].num_proc = 2
    /\ plan["snr"].num_proc = 4
    /\ plan["rate"].num_proc = 1

WorkerAllocationCpuWitness ==
    /\ device_count = 0
    /\ args.num_workers_per_gpu_for_snr = 0
    /\ args.cpu_num_workers = 2
    /\ plan["snr"].num_proc = 2
    /\ "snr" \in finished

\* C2: a run that fails because a stage's resolved process count is 0 fails
\* before any annotation pass has completed.
ZeroWorkersFailBeforeAnyStage ==
    failure = "config" => finished = {}

\* C3: the speaking-rate pass is given the SNR pass's output exactly when the
\* schema of the first split of that output has speech_duration, and the base
\* corpus as loaded otherwise; either way its output has no audio column.
ResolverPolicy ==
    /\ rate_input # "none" =>
          (rate_input = "snr_dataset"
             <=> "speech_duration" \in Features(snr_dataset[FirstSplit]))
    /\ "rate" \in finished =>
          \A s \in Splits :
             LET given == IF "speech_duration" \in Features(snr_dataset[FirstSplit])
                          THEN snr_dataset[s] ELSE base
             IN /\ audio_column_name \notin Features(rate_dataset[s])
                /\ \A c \in Features(given) \ {audio_column_name, "speaking_rate",
                                              "phonemes"} :
                      /\ c \in Features(rate_dataset[s])
                      /\ rate_dataset[s].column[c] = given.column[c]

ResolverUpstreamWitness ==
    /\ "rate" \in finished
    /\ rate_input = "snr_dataset"
    /\ "snr" \in Features(rate_dataset[FirstSplit])
    /\ "speech_duration" \notin Features(base)

ResolverBaseWitness ==
    /\ "rate" \in finished
    /\ rate_input = "dataset"
    /\ "snr" \notin Features(rate_dataset[FirstSplit])

\* C4: after the merge every split starts from a derived corpus that still has
\* the audio column, its columns are the base columns (audio and text
\* included) plus the columns of every pass that ran, it has as many rows as
\* the base split, and row i holds row i of the base and of each pass.
QualityColumns == IF args.apply_squim_quality_estimation
                  THEN {"stoi", "si-sdr", "pesq"} ELSE {}

MergeSource(s, c) ==
    CASE c \in {"snr", "c50", "speech_duration"} -> snr_dataset[s].column[c]
      [] c \in {"speaking_rate", "phonemes"}     -> rate_dataset[s].column[c]
      [] c \in {"stoi", "pesq"}                  -> squim_dataset[s].column[c]
      [] c = "si-sdr"                            -> squim_dataset[s].column["sdr"]
      [] c \in Emitted("pitch")                  -> pitch_dataset[s].column[c]
      [] OTHER                                   -> base.column[c]

MergeIsColumnUnion ==
    Merged =>
       \A s \in Splits :
          /\ audio_column_name \in Features(pitch_dataset[s])
          /\ Features(dataset[s]) =
                Features(base) \cup Emitted("pitch") \cup Emitted("snr")
                   \cup Emitted("rate") \cup QualityColumns
          /\ dataset[s].num_rows = base.num_rows
          /\ \A c \in Features(dataset[s]) :
                dataset[s].column[c] = MergeSource(s, c)

\* C5: when a column the merge appends has the name of a column already in the
\* corpus being built, the run ends in an error and nothing is exported; no
\* column of the corpus the merge started from is ever replaced.
AppendedNames(s) ==
    {"snr", "c50", "speaking_rate", "phonemes"}
       \cup (IF DatasetContains(snr_dataset[s], "speech_duration")
             THEN {"speech_duration"} ELSE {})
       \cup QualityColumns

Collides(s) == AppendedNames(s) \cap Features(pitch_dataset[s]) # {}

MergeFailsOnCollision ==
    /\ (pc \notin {"setup", "load"} \cup Stages /\ pc # "merge"
          /\ "rate" \in finished /\ \E s \in Splits : Collides(s)) =>
          /\ failure = "schema"
          /\ pc = "failed"
          /\ ExportCalls = {}
    /\ (Merged \/ failure = "schema") =>
          \A s \in Splits :
             \A c \in Features(pitch_dataset[s]) \cap Features(dataset[s]) :
                dataset[s].column[c] = pitch_dataset[s].column[c]

MergeCollisionWitness ==
    /\ failure = "schema"
    /\ "phonemes" \in Features(base)
    /\ "c50" \in Features(dataset[FirstSplit])
    /\ ExportCalls = {}

\* C6: storage options are set exactly when both the key and the secret are
\* given (non-empty), the endpoint being attached only then and only when
\* given; with any of the three given otherwise, the warning is printed, no
\* call receives credentials and the run goes on; with none given there is no
\* warning.
CredentialPolicy ==
    LET key      == args.aws_access_key_id
        secret   == args.aws_secret_access_key
        endpoint == args.aws_endpoint_url
        both     == Truthy(key) /\ Truthy(secret)
        any      == Truthy(key) \/ Truthy(secret) \/ Truthy(endpoint)
    IN pc # "setup" =>
          /\ HasOptions(storage_options) <=> both
          /\ both => /\ storage_options.key = key
                     /\ storage_options.secret = secret
                     /\ storage_options.endpoint_url =
                           (IF Truthy(endpoint) THEN endpoint ELSE None)
          /\ warned <=> (any /\ ~both)
          /\ ~both => \A i \in DOMAIN calls : calls[i].storage_options = NoOptions
          /\ pc = "load" => failure = "none"

PartialCredentialsWitness ==
    /\ pc = "done"
    /\ args.aws_access_key_id = "AK"
    /\ args.aws_secret_access_key = None
    /\ args.aws_endpoint_url = "https://s3"
    /\ warned
    /\ ~HasOptions(storage_options)
    /\ Len(calls) = 3

\* C7: the passes run in the order quality, pitch, snr/reverb, rate, the
\* quality pass exactly when enabled; a pass is entered only when every
\* earlier one has returned, so at most one is in progress; the merge comes
\* after all of them and the exports after the merge, save before push.
StagePos(stage) == CHOOSE i \in DOMAIN StageOrder : StageOrder[i] = stage

CallPos(fn) ==
    CASE fn \in {"load_from_disk", "load_dataset"} -> 1
      [] fn = "save_to_disk" -> 2
      [] fn = "push_to_hub"  -> 3

FixedStageOrder ==
    /\ \A i, j \in DOMAIN started :
          i < j => StagePos(started[i]) < StagePos(started[j])
    /\ \A i \in DOMAIN started : i < Len(started) => started[i] \in finished
    /\ Cardinality(in_progress) <= 1
    /\ in_progress \cup finished = Range(started)
    /\ "squim" \in Range(started) => args.apply_squim_quality_estimation
    /\ "pitch" \in Range(started) =>
          ("squim" \in finished <=> args.apply_squim_quality_estimation)
    /\ "snr" \in Range(started) => "pitch" \in finished
    /\ "rate" \in Range(started) => "snr" \in finished
    /\ (Merged \/ pc = "merge" \/ failure = "schema") =>
          /\ in_progress = {}
          /\ {"pitch", "snr", "rate"} \subseteq finished
    /\ ExportCalls # {} => pc \in {"push", "done"}
    /\ \A i, j \in DOMAIN calls :
          i < j => CallPos(calls[i].fn) < CallPos(calls[j].fn)

FixedStageOrderWitness ==
    /\ pc = "done"
    /\ started = StageOrder
    /\ Len(calls) = 3

\* C8: once a transform has raised on a batch the run is over: the pass is not
\* entered again and does not return, no later pass is entered, nothing is
\* merged and neither export is made; a pass that returned processed every row.
TransformFailureIsFinal ==
    /\ failure = "transform" =>
          /\ pc = "failed"
          /\ in_progress = {job.stage}
          /\ job.stage \notin finished
          /\ started[Len(started)] = job.stage
          /\ dataset = [s \in Splits |-> base]
          /\ ExportCalls = {}
    /\ \A i, j \in DOMAIN started : i # j => started[i] # started[j]
    /\ \A s \in Splits :
          /\ "squim" \in finished => squim_dataset[s].num_rows = base.num_rows
          /\ "pitch" \in finished => pitch_dataset[s].num_rows = base.num_rows
          /\ "snr" \in finished => snr_dataset[s].num_rows = base.num_rows
          /\ "rate" \in finished => rate_dataset[s].num_rows = base.num_rows

TransformFailurePropagates ==
    /\ []TransformFailureIsFinal
    /\ [][failure = "transform" => UNCHANGED vars]_vars

TransformFailureWitness ==
    /\ failure = "transform"
    /\ job.stage = "snr"
    /\ job.done > 0
    /\ "pitch" \in finished
    /\ Truthy(args.output_dir)
    /\ Truthy(args.repo_id)

\* C9: after the merge a split has a speech_duration column exactly when the
\* SNR pass's output schema has one, which is exactly when the rate pass was
\* given the SNR pass's output.
MergerAgreesWithResolver ==
    Merged =>
       \A s \in Splits :
          /\ "speech_duration" \in Features(dataset[s])
                <=> "speech_duration" \in Features(snr_dataset[s])
          /\ "speech_duration" \in Features(dataset[s])
                <=> rate_input = "snr_dataset"

\* C10: every load call and every export call is passed the storage options in
\* effect: the credentials when they are complete, nothing otherwise.
CredentialsThreadedUniformly ==
    \A i \in DOMAIN calls : calls[i].storage_options = storage_options

====
